---- MODULE Spec2Model ----
(***************************************************************************)
(* Day 24 (blizzard valley) of glasir/aoc22: the valley State and its      *)
(* stepping function, the neighbor rule, the time-expanded A* search of    *)
(* arrival_time with its lazily extended slice cache, and the drivers      *)
(* part1 / part2.                                                          *)
(***************************************************************************)
EXTENDS Integers, Sequences, FiniteSets, TLC

\* ------------------------------------------------------------------ bounds
\* Most blizzards in an enumerated valley.
MaxBlizzards == 2
\* A search state whose tick has reached MaxTick is not expanded any further.
MaxTick == 8
\* Calls of arrival_time a direct caller makes on one cache, and the largest
\* start_time it passes.
MaxCalls == 2
MaxStartTime == 1
\* The stepping runs: the largest interior (rows, columns) and the most steps.
MaxRows == 2
MaxCols == 3
MaxSteps == 4
\* The same ceiling for the runs of part1 and part2, whose journeys are longer.
MaxJourneyTick == 56

\* The integer runs: the largest realistic interior side and tick.
RealisticSide == 300
RealisticTick == 5000

\* Day 25: the most quints of an operand or characters of a line, and the most
\* lines of a puzzle text.
MaxQuints == 3
MaxLines == 3

\* Day 9: the most knots of a rope and the most pulls on it.
MaxKnots == 3
MaxPulls == 8

\* ------------------------------------------------------- day24.rs, the data
Direction == {"Right", "Down", "Left", "Up"}

\* A Point is <<row, col>>, a Blizzard is <<Point, Direction>>.
Range(f) == {f[i] : i \in DOMAIN f}

Abs(x) == IF x < 0 THEN -x ELSE x

\* The integer types: Point holds i32, the heuristic and the costs are u32.
\* u32 values are told by their two 16-bit halves.
I32Max == 2147483647

InI32(v) == -I32Max - 1 <= v /\ v <= I32Max

InU32(v) == 0 <= v /\ v \div 65536 < 65536

\* `x as u32` of a usize: the low 32 bits.
AsU32(x) == ((x \div 65536) % 65536) * 65536 + (x % 65536)

\* A faulty move_blizzard: a blizzard heading Left that leaves column 0 comes
\* back at the index of the last row, not of the last column.
move_blizzard_wrong_axis(self, blizzard) ==
    LET coords == blizzard[1]
        new_coords ==
            CASE blizzard[2] = "Right" ->
                    IF coords[2] = self.dimensions[2] - 1
                    THEN <<coords[1], 0>>
                    ELSE <<coords[1], coords[2] + 1>>
              [] blizzard[2] = "Down" ->
                    IF coords[1] = self.dimensions[1] - 1
                    THEN <<0, coords[2]>>
                    ELSE <<coords[1] + 1, coords[2]>>
              [] blizzard[2] = "Left" ->
                    IF coords[2] = 0
                    THEN <<coords[1], self.dimensions[1] - 1>>
                    ELSE <<coords[1], coords[2] - 1>>
              [] blizzard[2] = "Up" ->
                    IF coords[1] = 0
                    THEN <<self.dimensions[1] - 1, coords[2]>>
                    ELSE <<coords[1] - 1, coords[2]>>
    IN  <<new_coords, blizzard[2]>>

\* A faulty move_blizzard: a blizzard heading Right wraps one column early.
move_blizzard_early_wrap(self, blizzard) ==
    LET coords == blizzard[1]
        new_coords ==
            CASE blizzard[2] = "Right" ->
                    IF coords[2] >= self.dimensions[2] - 2
                    THEN <<coords[1], 0>>
                    ELSE <<coords[1], coords[2] + 1>>
              [] blizzard[2] = "Down" ->
                    IF coords[1] = self.dimensions[1] - 1
                    THEN <<0, coords[2]>>
                    ELSE <<coords[1] + 1, coords[2]>>
              [] blizzard[2] = "Left" ->
                    IF coords[2] = 0
                    THEN <<coords[1], self.dimensions[2] - 1>>
                    ELSE <<coords[1], coords[2] - 1>>
              [] blizzard[2] = "Up" ->
                    IF coords[1] = 0
                    THEN <<self.dimensions[1] - 1, coords[2]>>
                    ELSE <<coords[1] - 1, coords[2]>>
    IN  <<new_coords, blizzard[2]>>

\* A faulty move_blizzard: a blizzard heading Down walks off the last row.
move_blizzard_down_unwrapped(self, blizzard) ==
    LET coords == blizzard[1]
        new_coords ==
            CASE blizzard[2] = "Right" ->
                    IF coords[2] = self.dimensions[2] - 1
                    THEN <<coords[1], 0>>
                    ELSE <<coords[1], coords[2] + 1>>
              [] blizzard[2] = "Down" ->
                    <<coords[1] + 1, coords[2]>>
              [] blizzard[2] = "Left" ->
                    IF coords[2] = 0
                    THEN <<coords[1], self.dimensions[2] - 1>>
                    ELSE <<coords[1], coords[2] - 1>>
              [] blizzard[2] = "Up" ->
                    IF coords[1] = 0
                    THEN <<self.dimensions[1] - 1, coords[2]>>
                    ELSE <<coords[1] - 1, coords[2]>>
    IN  <<new_coords, blizzard[2]>>

\* State::move_blizzard: one step forward, the two boundary values of the
\* heading's axis special-cased.
move_blizzard(self, blizzard) ==
    LET coords == blizzard[1]
        new_coords ==
            CASE blizzard[2] = "Right" ->
                    IF coords[2] = self.dimensions[2] - 1
                    THEN <<coords[1], 0>>
                    ELSE <<coords[1], coords[2] + 1>>
              [] blizzard[2] = "Down" ->
                    IF coords[1] = self.dimensions[1] - 1
                    THEN <<0, coords[2]>>
                    ELSE <<coords[1] + 1, coords[2]>>
              [] blizzard[2] = "Left" ->
                    IF coords[2] = 0
                    THEN <<coords[1], self.dimensions[2] - 1>>
                    ELSE <<coords[1], coords[2] - 1>>
              [] blizzard[2] = "Up" ->
                    IF coords[1] = 0
                    THEN <<self.dimensions[1] - 1, coords[2]>>
                    ELSE <<coords[1] - 1, coords[2]>>
    IN  <<new_coords, blizzard[2]>>

\* A faulty next: of the blizzards that arrive on one cell only the first is
\* kept.
next_merging(self) ==
    LET moved == [i \in DOMAIN self.blizzards |->
                     move_blizzard(self, self.blizzards[i])]
        kept == {i \in DOMAIN moved :
                    \A j \in DOMAIN moved : j < i => moved[j][1] # moved[i][1]}
        blizzards == [k \in 1..Cardinality(kept) |->
                         moved[CHOOSE i \in kept :
                                   Cardinality({j \in kept : j < i}) = k - 1]]
    IN  [obstacles  |-> {b[1] : b \in Range(blizzards)},
         blizzards  |-> blizzards,
         dimensions |-> self.dimensions,
         start      |-> self.start,
         end        |-> self.end]

\* A faulty next: the start and the end change places.
next_swapping_ends(self) ==
    LET blizzards == [i \in DOMAIN self.blizzards |->
                         move_blizzard(self, self.blizzards[i])]
    IN  [obstacles  |-> {b[1] : b \in Range(blizzards)},
         blizzards  |-> blizzards,
         dimensions |-> self.dimensions,
         start      |-> self.end,
         end        |-> self.start]

\* A faulty next: the occupied set is copied, not rebuilt.
next_stale_obstacles(self) ==
    LET blizzards == [i \in DOMAIN self.blizzards |->
                         move_blizzard(self, self.blizzards[i])]
    IN  [obstacles  |-> self.obstacles,
         blizzards  |-> blizzards,
         dimensions |-> self.dimensions,
         start      |-> self.start,
         end        |-> self.end]

\* State::next: every blizzard moved, the occupied set rebuilt, the rest copied.
next(self) ==
    LET blizzards == [i \in DOMAIN self.blizzards |->
                         move_blizzard(self, self.blizzards[i])]
    IN  [obstacles  |-> {b[1] : b \in Range(blizzards)},
         blizzards  |-> blizzards,
         dimensions |-> self.dimensions,
         start      |-> self.start,
         end        |-> self.end]

\* neighbors: the point itself and its four orthogonal neighbours, kept when
\* they are the start, the end, or a free cell of the interior.
\* Faulty offsets: the four diagonal neighbours are candidates too.
DeltasWithDiagonals ==
    {<<dy, dx>> : dy \in {-1, 0, 1}, dx \in {-1, 0, 1}}

Deltas == {<<0, 0>>, <<-1, 0>>, <<1, 0>>, <<0, -1>>, <<0, 1>>}

\* A faulty neighbors: the end point is not let through.
neighbors_without_end(state, point) ==
    {p \in {<<point[1] + d[1], point[2] + d[2]>> : d \in Deltas} :
        \/ p = state.start
        \/ /\ 0 <= p[1]
           /\ p[1] < state.dimensions[1]
           /\ 0 <= p[2]
           /\ p[2] < state.dimensions[2]
           /\ p \notin state.obstacles}

\* A faulty neighbors: the blizzards are not looked at.
neighbors_ignoring_blizzards(state, point) ==
    {p \in {<<point[1] + d[1], point[2] + d[2]>> : d \in Deltas} :
        \/ p = state.start
        \/ p = state.end
        \/ /\ 0 <= p[1]
           /\ p[1] < state.dimensions[1]
           /\ 0 <= p[2]
           /\ p[2] < state.dimensions[2]}

neighbors(state, point) ==
    {p \in {<<point[1] + d[1], point[2] + d[2]>> : d \in Deltas} :
        \/ p = state.start
        \/ p = state.end
        \/ /\ 0 <= p[1]
           /\ p[1] < state.dimensions[1]
           /\ 0 <= p[2]
           /\ p[2] < state.dimensions[2]
           /\ p \notin state.obstacles}

\* A faulty heuristic: the differences are taken with their sign.
heuristic_signed(end, p) == (end[1] - p[1]) + (end[2] - p[2])

\* A faulty heuristic: the squared straight-line distance.
heuristic_squared(end, p) ==
    (end[1] - p[1]) * (end[1] - p[1]) + (end[2] - p[2]) * (end[2] - p[2])

\* A faulty heuristic: three times the Manhattan distance, an overestimate.
heuristic_overestimating(end, p) ==
    3 * (Abs(end[1] - p[1]) + Abs(end[2] - p[2]))

\* The A* heuristic of arrival_time: Manhattan distance to `end`.
heuristic(end, p) == Abs(end[1] - p[1]) + Abs(end[2] - p[2])

\* ------------------------------------------------------- generator
\* The puzzle text is a sequence of lines, each a sequence of characters, walls
\* included. Positions in a line are 0-based in the code, 1-based here.
BlizzardOf(c, coords) ==
    CASE c = ">" -> <<coords, "Right">>
      [] c = "v" -> <<coords, "Down">>
      [] c = "<" -> <<coords, "Left">>
      [] c = "^" -> <<coords, "Up">>

\* str::find: the 0-based position of the first `ch` of the line.
Find(line, ch) ==
    (CHOOSE i \in 1..Len(line) :
        line[i] = ch /\ \A j \in 1..(i - 1) : line[j] # ch) - 1

\* The blizzards of the interior lines, scanned row by row, column by column.
RECURSIVE ScanCells(_, _, _, _)
ScanCells(lines, num_rows, num_cols, k) ==
    IF k >= num_rows * num_cols THEN <<>>
    ELSE LET row == k \div num_cols
             col == k % num_cols
             c   == lines[row + 2][col + 2]
             rest == ScanCells(lines, num_rows, num_cols, k + 1)
         IN  IF c = "." THEN rest
             ELSE <<BlizzardOf(c, <<row, col>>)>> \o rest

\* take_while: how many of the lines after the first are scanned, namely those
\* before the first one whose second character is a wall.
TakenLines(input) ==
    Cardinality({i \in 2..Len(input) : \A j \in 2..i : input[j][2] # "#"})

\* Whether the scan meets a character that none of the match arms names and
\* stops at panic!("bad map character").
BadMapCharacter(input) ==
    \E row \in 0..(TakenLines(input) - 1), col \in 0..(Len(input[1]) - 3) :
        /\ col + 2 <= Len(input[row + 2])
        /\ input[row + 2][col + 2] \notin {".", ">", "v", "<", "^"}

generator(input) ==
    LET num_cols == Len(input[1]) - 2
        start == <<-1, Find(input[1], ".") - 1>>
        blizzards == ScanCells(input, TakenLines(input), num_cols, 0)
        num_rows == Len(input) - 2
        end == <<num_rows, Find(input[Len(input)], ".") - 1>>
    IN  [obstacles  |-> {b[1] : b \in Range(blizzards)},
         blizzards  |-> blizzards,
         dimensions |-> <<num_rows, num_cols>>,
         start      |-> start,
         end        |-> end]

\* ------------------------------------------------------- the inputs
\* A puzzle text around an interior: the top wall with its gap above column
\* start_col, the interior rows between side walls, the bottom wall with its
\* gap below column end_col.
WallLine(num_cols, gap_col) ==
    [i \in 1..(num_cols + 2) |-> IF i = gap_col + 2 THEN "." ELSE "#"]

MapText(interior, start_col, end_col) ==
    LET num_cols == Len(interior[1])
    IN  <<WallLine(num_cols, start_col)>>
        \o [r \in 1..Len(interior) |-> <<"#">> \o interior[r] \o <<"#">>]
        \o <<WallLine(num_cols, end_col)>>

MapChars == {".", ">", "v", "<", "^"}

\* The interior of the enumerated valleys, <<rows, columns>>.
GridDims == <<2, 3>>

\* The interiors of rows x cols cells: every choice of at most MaxBlizzards
\* cells holding a blizzard, of every heading.
Interiors(rows, cols) ==
    UNION {{[r \in 1..rows |-> [c \in 1..cols |->
                IF <<r, c>> \in held THEN heading[<<r, c>>] ELSE "."]] :
             heading \in [held -> MapChars \ {"."}]} :
           held \in {h \in SUBSET ((1..rows) \X (1..cols)) :
                        Cardinality(h) <= MaxBlizzards}}

\* Start above column 0, end below the last column, as in the puzzle.
ValleysOf(rows, cols) ==
    {generator(MapText(g, 0, cols - 1)) : g \in Interiors(rows, cols)}

Valleys == ValleysOf(GridDims[1], GridDims[2])

\* The worked example of the puzzle text (tests::test_part1, test_part2).
ExampleText ==
    << <<"#", ".", "#", "#", "#", "#", "#", "#">>,
       <<"#", ">", ">", ".", "<", "^", "<", "#">>,
       <<"#", ".", "<", ".", ".", "<", "<", "#">>,
       <<"#", ">", "v", ".", ">", "<", ">", "#">>,
       <<"#", "<", "^", "v", "^", "^", ">", "#">>,
       <<"#", "#", "#", "#", "#", "#", ".", "#">> >>

Example == generator(ExampleText)

\* ------------------------------------------------------- the program state
VARIABLES
    input,      \* the parsed valley (tick 0), read-only after construction
    states,     \* the slice cache `states: Vec<State>`; states[t + 1] is tick t
    pc,         \* "idle", "search", "returned", "oob" (index out of bounds
                \* panic), "nopath" (the expect panic), "done"
    call,       \* the arguments of the running arrival_time call, and the
                \* cache length it began with
    parents,    \* astar's map: search state (point, tick) -> best cost seen
    to_see,     \* astar's heap: records (estimated_cost, cost, node)
    result,     \* the value the last arrival_time call returned
    outcomes,   \* history: how each finished call ended
    ncalls,     \* calls made so far
    prog,       \* the entry point running: "none", "part1", "part2"
    legs,       \* part2: the arrival ticks of the legs finished so far
    answer,     \* the value part1 / part2 returned, -1 before
    text,       \* day24: the puzzle text handed to the generator
    sizes,      \* day24: the integer values computed on a large valley
    quinary,    \* day25: the running sum of part1 and what it was made of
    rope        \* day9: the knots of the rope, before and after the last pull

\* What the day24 search and its drivers never touch.
others == <<text, sizes, quinary, rope>>

vars == <<input, states, pc, call, parents, to_see, result, outcomes, ncalls,
          prog, legs, answer, text, sizes, quinary, rope>>

NoCall == [start |-> <<0, 0>>, end |-> <<0, 0>>, start_time |-> 0, cached |-> 0]

\* The other programs of the repository, not started.
NoText == <<>>
NoSizes == [computed |-> FALSE]
NoQuinary == [started |-> FALSE]
NoRope == [started |-> FALSE]

OthersIdle ==
    /\ text = NoText
    /\ sizes = NoSizes
    /\ quinary = NoQuinary
    /\ rope = NoRope

NoValley ==
    [obstacles |-> {}, blizzards |-> <<>>, dimensions |-> <<0, 0>>,
     start |-> <<0, 0>>, end |-> <<0, 0>>]

Day24With(valley) ==
    /\ input = valley
    /\ states = <<valley>>          \* states.push(input.clone())
    /\ pc = "idle"
    /\ call = NoCall
    /\ parents = <<>>
    /\ to_see = {}
    /\ result = 0
    /\ outcomes = {}
    /\ ncalls = 0
    /\ prog = "none"
    /\ legs = <<>>
    /\ answer = -1

InitWith(valley) == Day24With(valley) /\ OthersIdle

Init == \E valley \in Valleys : InitWith(valley)

\* The tick ceiling of a run (the code has none).
TickCeiling == IF prog = "none" THEN MaxTick ELSE MaxJourneyTick

\* ------------------------------------------------------- arrival_time
\* The entry of arrival_time: astar seeds its heap and its map with the start
\* state (start, start_time) at cost 0.
Enter(start, end, start_time) ==
    /\ call' = [start |-> start, end |-> end, start_time |-> start_time,
                cached |-> Len(states)]
    /\ parents' = (<<start, start_time>> :> 0)
    /\ to_see' = {[estimated_cost |-> 0, cost |-> 0,
                   node |-> <<start, start_time>>]}
    /\ pc' = "search"
    /\ ncalls' = ncalls + 1

\* A faulty heap order: the entry nearest to the goal first, whatever the cost
\* of reaching it.
BestGreedy(heap) ==
    {e \in heap : \A o \in heap :
        e.estimated_cost - e.cost <= o.estimated_cost - o.cost}

\* The heap's order: smallest estimated cost first, among those the largest
\* cost; which of several equal entries the heap yields is left open.
Best(heap) ==
    {e \in heap : \A o \in heap :
        \/ e.estimated_cost < o.estimated_cost
        \/ e.estimated_cost = o.estimated_cost /\ e.cost >= o.cost}

\* A faulty push: the new slice overwrites the last one.
PushedOverwriting(cache, time) ==
    IF Len(cache) <= 1 + time
    THEN [cache EXCEPT ![Len(cache)] = next(cache[Len(cache)])]
    ELSE cache

\* A faulty push: the slice pushed is two steps after the last one.
PushedSkipping(cache, time) ==
    IF Len(cache) <= 1 + time
    THEN Append(cache, next(next(cache[Len(cache)])))
    ELSE cache

\* The successor closure, first half: push the slice after the last one when
\* the cache holds no slice for tick time + 1.
Pushed(cache, time) ==
    IF Len(cache) <= 1 + time
    THEN Append(cache, next(cache[Len(cache)]))
    ELSE cache

\* A faulty lookup: the slice is counted from the call's own start_time.
SuccessorsRebased(cache, p, time) ==
    {<<n, time + 1>> : n \in neighbors(cache[time - call.start_time + 2], p)}

\* A faulty closure: standing still is not among the successors.
SuccessorsWithoutWaiting(cache, p, time) ==
    {<<n, time + 1>> : n \in neighbors(cache[time + 2], p) \ {p}}

\* The successor closure, second half: the neighbors in states[time + 1].
Successors(cache, p, time) ==
    {<<n, time + 1>> : n \in neighbors(cache[time + 2], p)}

\* A faulty return value: the start time is not added.
AddStartTimeForgotten(start_time, distance) == distance

\* "Make sure to add in the start time!": start_time as u32 + distance.
AddStartTime(start_time, distance) == AsU32(start_time) + distance

\* A faulty edge cost: every move costs two.
UnitCostDoubled == 1 + 1

\* The cost the successor closure pairs with every neighbor: "we're on a grid
\* so all distances are identically 1".
UnitCost == 1

\* The end of a call: astar's heap and map are dropped, and the history notes
\* how the call ended.
Finished(returned, tick) ==
    /\ parents' = <<>>
    /\ to_see' = {}
    /\ outcomes' = outcomes \cup
           {[start |-> call.start, end |-> call.end,
             start_time |-> call.start_time,
             returned |-> returned, tick |-> tick]}

\* One turn of astar's loop: pop the best entry; return at the goal, else
\* expand it through the successor closure and queue every successor that is
\* new or cheaper than before. An empty heap is the "no path found" panic.
Astar ==
    /\ pc = "search"
    /\ IF to_see = {}
       THEN /\ pc' = "nopath"
            /\ Finished(FALSE, 0)
            /\ UNCHANGED <<states, result>>
       ELSE \E e \in Best(to_see) :
            LET p    == e.node[1]
                time == e.node[2]
            IN  IF p = call.end
                THEN \* success: astar yields the goal's cost as `distance`
                     /\ result' = AddStartTime(call.start_time, e.cost)
                     /\ pc' = "returned"
                     /\ Finished(TRUE, AddStartTime(call.start_time, e.cost))
                     /\ UNCHANGED states
                ELSE IF e.cost > parents[e.node]
                THEN /\ to_see' = to_see \ {e}
                     /\ UNCHANGED <<states, parents, result, pc, outcomes>>
                ELSE /\ time < TickCeiling
                     /\ states' = Pushed(states, time)
                     /\ IF time + 1 >= Len(states')
                        THEN \* states[time + 1] is out of bounds
                             /\ pc' = "oob"
                             /\ Finished(FALSE, 0)
                             /\ UNCHANGED result
                        ELSE LET new_cost == e.cost + UnitCost
                                 better == {s \in Successors(states', p, time) :
                                              \/ s \notin DOMAIN parents
                                              \/ parents[s] > new_cost}
                             IN  /\ parents' =
                                        [s \in DOMAIN parents \cup better |->
                                            IF s \in better THEN new_cost
                                            ELSE parents[s]]
                                 /\ to_see' = (to_see \ {e}) \cup
                                        {[estimated_cost |->
                                              new_cost + heuristic(call.end, s[1]),
                                          cost |-> new_cost,
                                          node |-> s] : s \in better}
                                 /\ UNCHANGED <<pc, result, outcomes>>
    /\ UNCHANGED <<others, input, call, ncalls, prog, legs, answer>>

\* ------------------------------------------------------- a direct caller
\* A caller of arrival_time between the valley's two endpoints, at any start
\* time up to MaxStartTime, on the cache as the earlier calls left it.
Call ==
    /\ pc \in {"idle", "returned"}
    /\ ncalls < MaxCalls
    /\ \E ends \in {<<input.start, input.end>>, <<input.end, input.start>>},
          start_time \in 0..MaxStartTime :
          Enter(ends[1], ends[2], start_time)
    /\ UNCHANGED <<others, input, states, result, outcomes, prog, legs, answer>>

Next == Call \/ Astar

Spec == Init /\ [][Next]_vars

\* ------------------------------------------------------- a caller from anywhere
\* arrival_time takes any point as its start. A single call at tick 0 on a
\* fresh cache towards either endpoint, from an endpoint or from a cell
\* of the interior, where the blizzards can close in on the traveler.
FromDims == <<1, 3>>

FromValleys ==
    {generator(MapText(g, 0, 1)) : g \in Interiors(FromDims[1], FromDims[2])}
    \cup ValleysOf(2, 2)

CallFrom ==
    /\ pc = "idle"
    /\ ncalls = 0
    /\ \E start \in {input.start, input.end}
                     \cup ((0..(input.dimensions[1] - 1))
                            \X (0..(input.dimensions[2] - 1))) :
          \E end \in {input.start, input.end} : Enter(start, end, 0)
    /\ UNCHANGED <<others, input, states, result, outcomes, prog, legs, answer>>

InitFrom == \E valley \in FromValleys : InitWith(valley)

NextFrom == CallFrom \/ Astar

SpecFrom == InitFrom /\ [][NextFrom]_vars

\* ------------------------------------------------------- the generator run
\* The generator on puzzle texts whose interior holds any character, map
\* characters or not, with the end below the first or the last column.
TextDims == <<2, 2>>

TextChars == MapChars \cup {"#", "x"}

Texts ==
    {MapText(g, 0, end_col) :
        g \in [1..TextDims[1] -> [1..TextDims[2] -> TextChars]],
        end_col \in {0, TextDims[2] - 1}}

Generate ==
    /\ pc = "idle"
    /\ text # NoText
    /\ IF BadMapCharacter(text)
       THEN /\ pc' = "badmap"
            /\ UNCHANGED input
       ELSE /\ pc' = "parsed"
            /\ input' = generator(text)
    /\ UNCHANGED <<states, call, parents, to_see, result, outcomes, ncalls,
                   prog, legs, answer, text, sizes, quinary, rope>>

InitGen ==
    /\ Day24With(NoValley)
    /\ text \in Texts
    /\ sizes = NoSizes
    /\ quinary = NoQuinary
    /\ rope = NoRope

NextGen == Generate

SpecGen == InitGen /\ [][NextGen]_vars

\* ------------------------------------------------------- part1, part2
\* part1: a fresh cache holding the input, one call from tick 0.
Part1Start ==
    /\ pc = "idle" /\ prog = "none"
    /\ prog' = "part1"
    /\ states' = <<input>>
    /\ Enter(input.start, input.end, 0)
    /\ UNCHANGED <<others, input, result, outcomes, legs, answer>>

Part1Return ==
    /\ pc = "returned" /\ prog = "part1"
    /\ answer' = result
    /\ pc' = "done"
    /\ UNCHANGED <<others, input, states, call, parents, to_see, result, outcomes,
                   ncalls, prog, legs>>

\* A faulty part2: the cache is seeded with the valley one step on.
Part2StartStepped ==
    /\ pc = "idle" /\ prog = "none"
    /\ prog' = "part2"
    /\ states' = <<next(input)>>
    /\ Enter(input.start, input.end, 0)
    /\ UNCHANGED <<others, input, result, outcomes, legs, answer>>

\* part2: a fresh cache holding the input, then start -> end from tick 0,
\* end -> start from get_to_end, start -> end from back_to_start.
Part2Start ==
    /\ pc = "idle" /\ prog = "none"
    /\ prog' = "part2"
    /\ states' = <<input>>
    /\ Enter(input.start, input.end, 0)
    /\ UNCHANGED <<others, input, result, outcomes, legs, answer>>

\* A faulty second leg: it starts from tick 0 again.
Part2BackFromZero ==
    /\ pc = "returned" /\ prog = "part2" /\ Len(legs) = 0
    /\ legs' = <<result>>
    /\ Enter(input.end, input.start, 0)
    /\ UNCHANGED <<others, input, states, result, outcomes, prog, answer>>

Part2Back ==
    /\ pc = "returned" /\ prog = "part2" /\ Len(legs) = 0
    /\ legs' = <<result>>                 \* get_to_end
    /\ Enter(input.end, input.start, result)
    /\ UNCHANGED <<others, input, states, result, outcomes, prog, answer>>

\* A faulty third leg: it starts one tick after the second leg arrived.
Part2AgainLate ==
    /\ pc = "returned" /\ prog = "part2" /\ Len(legs) = 1
    /\ legs' = Append(legs, result)
    /\ Enter(input.start, input.end, result + 1)
    /\ UNCHANGED <<others, input, states, result, outcomes, prog, answer>>

\* A faulty third leg: it starts at the tick the first leg arrived.
Part2AgainFromFirstLeg ==
    /\ pc = "returned" /\ prog = "part2" /\ Len(legs) = 1
    /\ legs' = Append(legs, result)
    /\ Enter(input.start, input.end, legs[1])
    /\ UNCHANGED <<others, input, states, result, outcomes, prog, answer>>

Part2Again ==
    /\ pc = "returned" /\ prog = "part2" /\ Len(legs) = 1
    /\ legs' = Append(legs, result)       \* back_to_start
    /\ Enter(input.start, input.end, result)
    /\ UNCHANGED <<others, input, states, result, outcomes, prog, answer>>

Part2Return ==
    /\ pc = "returned" /\ prog = "part2" /\ Len(legs) = 2
    /\ legs' = Append(legs, result)
    /\ answer' = result
    /\ pc' = "done"
    /\ UNCHANGED <<others, input, states, call, parents, to_see, result, outcomes,
                   ncalls, prog>>

NextParts ==
    \/ Part1Start \/ Part1Return
    \/ Part2Start \/ Part2Back \/ Part2Again \/ Part2Return
    \/ Astar

InitParts == \E valley \in Valleys \cup {Example} : InitWith(valley)

SpecParts == InitParts /\ [][NextParts]_vars

\* ------------------------------------------------------- stepping alone
\* State::next applied over and over to a valley of any interior up to
\* MaxRows x MaxCols, each result appended after the one it was made from.
Step ==
    /\ Len(states) <= MaxSteps
    /\ states' = Append(states, next(states[Len(states)]))
    /\ UNCHANGED <<others, input, pc, call, parents, to_see, result, outcomes,
                   ncalls, prog, legs, answer>>

InitStep ==
    \E rows \in 1..MaxRows, cols \in 1..MaxCols :
        \E valley \in ValleysOf(rows, cols) : InitWith(valley)

NextStep == Step

SpecStep == InitStep /\ [][NextStep]_vars

\* ------------------------------------------------------- the integer runs
\* The integer computations of the search, made once on a valley of realistic
\* size: the candidate coordinates of neighbors, a blizzard moved, the
\* heuristic, astar's estimated cost and the returned tick.
SideSamples(n) == {0, n \div 2, n - 1}

WideValley(num_rows, num_cols, blizzard) ==
    [obstacles  |-> {blizzard[1]},
     blizzards  |-> <<blizzard>>,
     dimensions |-> <<num_rows, num_cols>>,
     start      |-> <<-1, 0>>,
     end        |-> <<num_rows, num_cols - 1>>]

WideValleys ==
    {WideValley(dims[1], dims[2], <<<<r, c>>, d>>) :
        dims \in {<<RealisticSide, RealisticSide>>, <<1, RealisticSide>>,
                  <<RealisticSide, 1>>},
        r \in SideSamples(RealisticSide), c \in SideSamples(RealisticSide),
        d \in Direction}

Measure ==
    /\ ~sizes.computed
    /\ \E p \in {input.start, input.end}
                 \cup (SideSamples(input.dimensions[1])
                        \X SideSamples(input.dimensions[2])),
          end \in {input.start, input.end},
          start_time \in {0, RealisticTick},
          distance \in {0, 1, RealisticTick} :
          LET moved == move_blizzard(input, input.blizzards[1])
          IN  sizes' =
                [computed |-> TRUE,
                 point |-> p,
                 start_time |-> start_time,
                 i32s |-> {p[1] + d[1] : d \in Deltas}
                          \cup {p[2] + d[2] : d \in Deltas}
                          \cup {n[1] : n \in neighbors(input, p)}
                          \cup {n[2] : n \in neighbors(input, p)}
                          \cup {input.dimensions[1] - 1,
                                input.dimensions[2] - 1,
                                moved[1][1], moved[1][2]},
                 u32s |-> {Abs(end[1] - p[1]), Abs(end[2] - p[2]),
                           heuristic(end, p),
                           distance + heuristic(end, p),
                           AsU32(start_time),
                           AddStartTime(start_time, distance)},
                 truncated |-> AsU32(start_time) # start_time]
    /\ UNCHANGED <<input, states, pc, call, parents, to_see, result, outcomes,
                   ncalls, prog, legs, answer, text, quinary, rope>>

InitSizes ==
    /\ \E valley \in WideValleys :
           /\ valley.blizzards[1][1][1] < valley.dimensions[1]
           /\ valley.blizzards[1][1][2] < valley.dimensions[2]
           /\ Day24With(valley)
    /\ text = NoText
    /\ sizes = NoSizes
    /\ quinary = NoQuinary
    /\ rope = NoRope

NextSizes == Measure

SpecSizes == InitSizes /\ [][NextSizes]_vars

\* ------------------------------------------------------- day25.rs
Quint == {"MinusTwo", "MinusOne", "Zero", "One", "Two"}

\* A faulty table: 2 + 1 gives the sum 2, not -2, with its carry.
Quint_add_unsigned_sum(self, other) ==
    CASE self = "Zero" -> <<other, "Zero">>
      [] other = "Zero" -> <<self, "Zero">>
      [] <<self, other>> \in {<<"One", "MinusOne">>, <<"Two", "MinusTwo">>,
                              <<"MinusOne", "One">>, <<"MinusTwo", "Two">>} ->
            <<"Zero", "Zero">>
      [] <<self, other>> \in {<<"Two", "MinusOne">>, <<"MinusOne", "Two">>} ->
            <<"One", "Zero">>
      [] <<self, other>> \in {<<"MinusTwo", "One">>, <<"One", "MinusTwo">>} ->
            <<"MinusOne", "Zero">>
      [] <<self, other>> = <<"One", "One">> -> <<"Two", "Zero">>
      [] <<self, other>> = <<"MinusOne", "MinusOne">> -> <<"MinusTwo", "Zero">>
      [] <<self, other>> \in {<<"Two", "One">>, <<"One", "Two">>} ->
            <<"Two", "One">>
      [] <<self, other>> \in {<<"MinusTwo", "MinusOne">>,
                              <<"MinusOne", "MinusTwo">>} ->
            <<"Two", "MinusOne">>
      [] <<self, other>> = <<"Two", "Two">> -> <<"MinusOne", "One">>
      [] <<self, other>> = <<"MinusTwo", "MinusTwo">> -> <<"One", "MinusOne">>

\* impl Add for Quint: the half-adder's table, <<sum, carry>>, the arms in
\* the order of the match.
Quint_add(self, other) ==
    CASE self = "Zero" -> <<other, "Zero">>
      [] other = "Zero" -> <<self, "Zero">>
      [] <<self, other>> \in {<<"One", "MinusOne">>, <<"Two", "MinusTwo">>,
                              <<"MinusOne", "One">>, <<"MinusTwo", "Two">>} ->
            <<"Zero", "Zero">>
      [] <<self, other>> \in {<<"Two", "MinusOne">>, <<"MinusOne", "Two">>} ->
            <<"One", "Zero">>
      [] <<self, other>> \in {<<"MinusTwo", "One">>, <<"One", "MinusTwo">>} ->
            <<"MinusOne", "Zero">>
      [] <<self, other>> = <<"One", "One">> -> <<"Two", "Zero">>
      [] <<self, other>> = <<"MinusOne", "MinusOne">> -> <<"MinusTwo", "Zero">>
      [] <<self, other>> \in {<<"Two", "One">>, <<"One", "Two">>} ->
            <<"MinusTwo", "One">>
      [] <<self, other>> \in {<<"MinusTwo", "MinusOne">>,
                              <<"MinusOne", "MinusTwo">>} ->
            <<"Two", "MinusOne">>
      [] <<self, other>> = <<"Two", "Two">> -> <<"MinusOne", "One">>
      [] <<self, other>> = <<"MinusTwo", "MinusTwo">> -> <<"One", "MinusOne">>

\* One round of the digit loop: the two quints added, the incoming carry added
\* to their sum, the two carries added; the carry of that last addition is
\* thrown away (`_`).
DigitRound(lhs_quint, rhs_quint, carry) ==
    LET quint_sum == Quint_add(lhs_quint, rhs_quint)
        sum == Quint_add(quint_sum[1], carry)
        total == Quint_add(quint_sum[2], sum[2])
    IN  [sum |-> sum[1], generated_carry |-> quint_sum[2],
         propagated_carry |-> sum[2], total_carry |-> total[1],
         discarded |-> total[2]]

\* The first loop of BalancedQuinary::add after i rounds: the quints pushed
\* and the carry, over the positions both operands have (1-based here).
RECURSIVE AddedQuints(_, _, _)
AddedQuints(self, rhs, i) ==
    IF i = 0 THEN [quints |-> <<>>, carry |-> "Zero"]
    ELSE LET before == AddedQuints(self, rhs, i - 1)
             round == DigitRound(self[i], rhs[i], before.carry)
         IN  [quints |-> Append(before.quints, round.sum),
              carry |-> round.total_carry]

\* The two later loops: the carry propagated through the quints of `longer`
\* from position shorter_len + 1 up to position i.
RECURSIVE Propagated(_, _, _, _)
Propagated(from, longer, shorter_len, i) ==
    IF i <= shorter_len THEN from
    ELSE LET before == Propagated(from, longer, shorter_len, i - 1)
             sum == Quint_add(before.carry, longer[i])
         IN  [quints |-> Append(before.quints, sum[1]), carry |-> sum[2]]

\* A faulty add: a carry left over after the last quint is dropped.
BalancedQuinary_add_dropping_carry(self, rhs) ==
    LET shorter_len == IF Len(self) < Len(rhs) THEN Len(self) ELSE Len(rhs)
        both == AddedQuints(self, rhs, shorter_len)
        lhs_rest == Propagated(both, self, shorter_len, Len(self))
        rhs_rest == Propagated(lhs_rest, rhs, shorter_len, Len(rhs))
    IN  IF rhs_rest.quints = <<>> THEN <<"Zero">> ELSE rhs_rest.quints

\* impl Add for BalancedQuinary, on the little-endian quint vectors.
BalancedQuinary_add(self, rhs) ==
    LET shorter_len == IF Len(self) < Len(rhs) THEN Len(self) ELSE Len(rhs)
        both == AddedQuints(self, rhs, shorter_len)
        lhs_rest == Propagated(both, self, shorter_len, Len(self))
        rhs_rest == Propagated(lhs_rest, rhs, shorter_len, Len(rhs))
        quints == IF rhs_rest.carry # "Zero"
                  THEN Append(rhs_rest.quints, rhs_rest.carry)
                  ELSE rhs_rest.quints
    IN  IF quints = <<>> THEN <<"Zero">> ELSE quints

Reversed(s) == [i \in 1..Len(s) |-> s[Len(s) + 1 - i]]

\* TryFrom<char> for Quint and From<Quint> for char.
QuintChars == {"=", "-", "0", "1", "2"}

Quint_try_from(value) ==
    CASE value = "=" -> "MinusTwo"
      [] value = "-" -> "MinusOne"
      [] value = "0" -> "Zero"
      [] value = "1" -> "One"
      [] value = "2" -> "Two"

char_from(pent) ==
    CASE pent = "MinusTwo" -> "="
      [] pent = "MinusOne" -> "-"
      [] pent = "Zero" -> "0"
      [] pent = "One" -> "1"
      [] pent = "Two" -> "2"

\* FromStr: Err when a character is none of the five, else the quints of the
\* reversed string. From<BalancedQuinary> for String: the way back.
from_str_is_ok(s) == \A i \in 1..Len(s) : s[i] \in QuintChars

from_str(s) == [i \in 1..Len(s) |-> Quint_try_from(Reversed(s)[i])]

String_from(value) == [i \in 1..Len(value) |-> char_from(Reversed(value)[i])]

\* Zero::zero.
zero == <<"Zero">>

\* part1 of day25 line by line: filter_map drops the lines from_str refuses,
\* Sum folds the others into the running total from zero().
Summed(acc, line) ==
    IF from_str_is_ok(line) THEN BalancedQuinary_add(acc, from_str(line))
    ELSE acc

RECURSIVE SumOfLines(_, _)
SumOfLines(lines, n) ==
    IF n = 0 THEN zero ELSE Summed(SumOfLines(lines, n - 1), lines[n])

day25_part1(lines) == String_from(SumOfLines(lines, Len(lines)))

\* tests::EXAMPLE of day25.rs.
Example25 ==
    << <<"1", "=", "-", "0", "-", "2">>, <<"1", "2", "1", "1", "1">>,
       <<"2", "=", "0", "=">>, <<"2", "1">>, <<"2", "=", "0", "1">>,
       <<"1", "1", "1">>, <<"2", "0", "0", "1", "2">>, <<"1", "1", "2">>,
       <<"1", "=", "-", "1", "=">>, <<"1", "-", "1", "2">>, <<"1", "2">>,
       <<"1", "=">>, <<"1", "2", "2">> >>

\* The integer a quint vector stands for, and the integer a digit string
\* stands for, read from its first (most significant) character.
QuintValue(q) ==
    CASE q = "MinusTwo" -> -2
      [] q = "MinusOne" -> -1
      [] q = "Zero" -> 0
      [] q = "One" -> 1
      [] q = "Two" -> 2

RECURSIVE ValueOf(_, _)
ValueOf(quints, i) ==
    IF i > Len(quints) THEN 0
    ELSE QuintValue(quints[i]) + 5 * ValueOf(quints, i + 1)

Value(quints) == ValueOf(quints, 1)

RECURSIVE StringValueOf(_, _)
StringValueOf(s, n) ==
    IF n = 0 THEN 0
    ELSE 5 * StringValueOf(s, n - 1) + QuintValue(Quint_try_from(s[n]))

StringValue(s) == IF from_str_is_ok(s) THEN StringValueOf(s, Len(s)) ELSE 0

\* The operands: every quint vector of up to MaxQuints quints, the empty one
\* (the number of an empty line) among them. The lines: every string of up
\* to MaxQuints characters, 'x' standing for what from_str refuses.
Operands == UNION {[1..n -> Quint] : n \in 0..MaxQuints}

Lines == UNION {[1..n -> QuintChars \cup {"x"}] : n \in 0..MaxQuints}

\* One addition of two operands.
AddPair ==
    /\ ~quinary.started
    /\ \E lhs \in Operands, rhs \in Operands :
          quinary' = [started |-> TRUE, mode |-> "add", lhs |-> lhs,
                      rhs |-> rhs, sum |-> BalancedQuinary_add(lhs, rhs)]
    /\ UNCHANGED <<input, states, pc, call, parents, to_see, result, outcomes,
                   ncalls, prog, legs, answer, text, sizes, rope>>

\* part1 begun, fed one more line, and returned. `value` is the history: the
\* integer sum of the lines so far that stand for a number.
Day25Begin ==
    /\ ~quinary.started
    /\ quinary' = [started |-> TRUE, mode |-> "part1", total |-> zero,
                   value |-> 0, lines |-> 0, longest |-> 0]
    /\ UNCHANGED <<input, states, pc, call, parents, to_see, result, outcomes,
                   ncalls, prog, legs, answer, text, sizes, rope>>

Day25Line ==
    /\ quinary.started /\ quinary.mode = "part1"
    /\ quinary.lines < MaxLines
    /\ \E line \in Lines :
          quinary' = [quinary EXCEPT
                         !.total = Summed(quinary.total, line),
                         !.value = quinary.value + StringValue(line),
                         !.lines = quinary.lines + 1,
                         !.longest = IF Len(line) > quinary.longest
                                     THEN Len(line) ELSE quinary.longest]
    /\ UNCHANGED <<input, states, pc, call, parents, to_see, result, outcomes,
                   ncalls, prog, legs, answer, text, sizes, rope>>

Day25Return ==
    /\ quinary.started /\ quinary.mode = "part1"
    /\ quinary' = [started |-> TRUE, mode |-> "done",
                   returned |-> String_from(quinary.total),
                   value |-> quinary.value, lines |-> quinary.lines,
                   longest |-> quinary.longest]
    /\ UNCHANGED <<input, states, pc, call, parents, to_see, result, outcomes,
                   ncalls, prog, legs, answer, text, sizes, rope>>

\* One round of the digit loop on its own, for two quints and an incoming
\* carry.
Carries == {"MinusOne", "Zero", "One"}

DigitLoopRound ==
    /\ quinary.started /\ quinary.mode = "digits"
    /\ quinary' = [quinary EXCEPT
                      !.mode = "round",
                      !.round = DigitRound(quinary.lhs_quint, quinary.rhs_quint,
                                           quinary.carry)]
    /\ UNCHANGED <<input, states, pc, call, parents, to_see, result, outcomes,
                   ncalls, prog, legs, answer, text, sizes, rope>>

InitDigits ==
    /\ Day24With(NoValley)
    /\ text = NoText
    /\ sizes = NoSizes
    /\ rope = NoRope
    /\ \E lhs_quint \in Quint, rhs_quint \in Quint, carry \in Carries :
          quinary = [started |-> TRUE, mode |-> "digits",
                     lhs_quint |-> lhs_quint, rhs_quint |-> rhs_quint,
                     carry |-> carry, round |-> <<>>]

NextDigits == DigitLoopRound

SpecDigits == InitDigits /\ [][NextDigits]_vars

InitQuinary ==
    /\ Day24With(NoValley)
    /\ OthersIdle

NextQuinary == AddPair \/ Day25Begin \/ Day25Line \/ Day25Return

SpecQuinary == InitQuinary /\ [][NextQuinary]_vars

\* ------------------------------------------------------- day9.rs
\* A Point is [x, y]; the rope's knots are 1-based here, knots[1] the head.
RopeDirection == {"Up", "Down", "Left", "Right"}

\* i32 division: towards zero.
TruncDiv(a, b) ==
    LET q == Abs(a) \div Abs(b)
    IN  IF (a < 0) = (b < 0) THEN q ELSE -q

translate(self, direction) ==
    CASE direction = "Up"    -> [self EXCEPT !.y = self.y + 1]
      [] direction = "Down"  -> [self EXCEPT !.y = self.y - 1]
      [] direction = "Left"  -> [self EXCEPT !.x = self.x - 1]
      [] direction = "Right" -> [self EXCEPT !.x = self.x + 1]

\* A faulty move_towards: a knot two cells off on one axis and off on the
\* other as well stays where it is.
move_towards_straight_only(self, other) ==
    LET dx == other.x - self.x
        dy == other.y - self.y
    IN  IF dx \in {-1, 0, 1} /\ dy \in {-1, 0, 1} THEN self
        ELSE IF dx = 0 THEN [self EXCEPT !.y = self.y + TruncDiv(dy, 2)]
        ELSE IF dy = 0 THEN [self EXCEPT !.x = self.x + TruncDiv(dx, 2)]
        ELSE self

\* Point::move_towards: the arms of the match in their order.
move_towards(self, other) ==
    LET dx == other.x - self.x
        dy == other.y - self.y
    IN  IF dx \in {-1, 0, 1} /\ dy \in {-1, 0, 1} THEN self
        ELSE IF dx = 0 THEN [self EXCEPT !.y = self.y + TruncDiv(dy, 2)]
        ELSE IF dy = 0 THEN [self EXCEPT !.x = self.x + TruncDiv(dx, 2)]
        ELSE [x |-> self.x + TruncDiv(dx, Abs(dx)),
              y |-> self.y + TruncDiv(dy, Abs(dy))]

\* Rope::pull after its loop has handled the knots up to `knot`: the head
\* translated, then each knot in turn moved towards the one before it, which
\* has already moved.
RECURSIVE PulledUpTo(_, _, _)
PulledUpTo(knots, direction, knot) ==
    IF knot = 1 THEN [knots EXCEPT ![1] = translate(knots[1], direction)]
    ELSE LET so_far == PulledUpTo(knots, direction, knot - 1)
         IN  [so_far EXCEPT
                 ![knot] = move_towards(so_far[knot], so_far[knot - 1])]

pull(knots, direction) == PulledUpTo(knots, direction, Len(knots))

\* Rope::new for a rope of N knots, 0 among the lengths.
RopeNew ==
    /\ ~rope.started
    /\ \E N \in 0..MaxKnots :
          rope' = [started |-> TRUE,
                   knots |-> [k \in 1..N |-> [x |-> 0, y |-> 0]],
                   before |-> [k \in 1..N |-> [x |-> 0, y |-> 0]],
                   pulls |-> 0,
                   panicked |-> FALSE]
    /\ UNCHANGED <<input, states, pc, call, parents, to_see, result, outcomes,
                   ncalls, prog, legs, answer, text, sizes, quinary>>

\* One Rope::pull; `before` keeps the knots as they were. A rope without
\* knots has no knots[0] to translate: the index panics.
RopePull ==
    /\ rope.started /\ ~rope.panicked
    /\ rope.pulls < MaxPulls
    /\ \E direction \in RopeDirection :
          IF Len(rope.knots) = 0
          THEN rope' = [rope EXCEPT !.panicked = TRUE]
          ELSE rope' = [rope EXCEPT !.knots = pull(rope.knots, direction),
                                    !.before = rope.knots,
                                    !.pulls = rope.pulls + 1]
    /\ UNCHANGED <<input, states, pc, call, parents, to_see, result, outcomes,
                   ncalls, prog, legs, answer, text, sizes, quinary>>

InitRope ==
    /\ Day24With(NoValley)
    /\ OthersIdle

NextRope == RopeNew \/ RopePull

SpecRope == InitRope /\ [][NextRope]_vars

\* ------------------------------------------------------- references
\* The valley at absolute tick t, stepped from the parsed input alone.
RECURSIVE SliceAt(_)
SliceAt(t) == IF t = 0 THEN input ELSE next(SliceAt(t - 1))

\* Plain breadth-first search by tick over the time-expanded graph: the set of
\* points the traveler can stand on, tick after tick, until `end` is among
\* them; -1 when that has not happened by tick `limit`.
RECURSIVE BfsFrom(_, _, _, _, _)
BfsFrom(frontier, slice, t, end, limit) ==
    IF end \in frontier THEN t
    ELSE IF t >= limit THEN -1
    ELSE LET after == next(slice)
         IN  BfsFrom(UNION {neighbors(after, p) : p \in frontier},
                     after, t + 1, end, limit)

BfsArrival(start, end, start_time) ==
    BfsFrom({start}, SliceAt(start_time), start_time, end, TickCeiling)

\* Where a blizzard of the input stands at absolute tick t, in closed form.
PositionAt(blizzard, t) ==
    LET r == blizzard[1][1]
        c == blizzard[1][2]
        H == input.dimensions[1]
        W == input.dimensions[2]
    IN  CASE blizzard[2] = "Right" -> <<r, (c + t) % W>>
          [] blizzard[2] = "Left"  -> <<r, (c + t * (W - 1)) % W>>
          [] blizzard[2] = "Down"  -> <<(r + t) % H, c>>
          [] blizzard[2] = "Up"    -> <<(r + t * (H - 1)) % H, c>>

ObstaclesAt(t) == {PositionAt(b, t) : b \in Range(input.blizzards)}

InInterior(p) ==
    /\ 0 <= p[1] /\ p[1] < input.dimensions[1]
    /\ 0 <= p[2] /\ p[2] < input.dimensions[2]

\* ------------------------------------------------------- the claims

\* C1: a call of arrival_time whose start slice is cached returns the smallest
\* tick at which `end` is reachable from (start, start_time): the A* result
\* equals the result of a plain breadth-first search by tick.
C1_AStarEqualsBfs ==
    pc = "returned" =>
        result = BfsArrival(call.start, call.end, call.start_time)

\* C1's case: a call from a later, cached start tick has returned, and the
\* way took longer than the Manhattan distance.
C1_Witness ==
    /\ pc = "returned"
    /\ call.start_time >= 1
    /\ call.cached > call.start_time
    /\ result - call.start_time > heuristic(call.end, call.start)

\* C2: on the worked example part1 returns 18 and part2 returns 54.
C2_ExampleAnswers ==
    (input = Example /\ pc = "done") =>
        /\ prog = "part1" => answer = 18
        /\ prog = "part2" => answer = 54

\* C2's case: part2 has finished on the worked example, its first leg (the
\* journey of part1) having arrived first.
C2_Witness ==
    /\ input = Example
    /\ prog = "part2"
    /\ pc = "done"
    /\ Len(legs) = 3

\* C3: every call of arrival_time with the same start, end and start_time
\* returns, and returns the same tick, whatever the cache held when it began.
C3_Determinism ==
    \A o1, o2 \in outcomes :
        (/\ o1.start = o2.start
         /\ o1.end = o2.end
         /\ o1.start_time = o2.start_time)
        => (o1.returned /\ o2.returned /\ o1.tick = o2.tick)

\* The part of C3 that holds: the calls that return agree.
ReturnedCallsAgree ==
    \A o1, o2 \in outcomes :
        (/\ o1.start = o2.start
         /\ o1.end = o2.end
         /\ o1.start_time = o2.start_time
         /\ o1.returned /\ o2.returned)
        => o1.tick = o2.tick

\* The arguments of the k-th leg of part2, from the ticks of the legs before.
LegCall(k) ==
    CASE k = 1 -> <<input.start, input.end, 0>>
      [] k = 2 -> <<input.end, input.start, legs[1]>>
      [] k = 3 -> <<input.start, input.end, legs[2]>>

LegOutcome(k) ==
    [start |-> LegCall(k)[1], end |-> LegCall(k)[2],
     start_time |-> LegCall(k)[3], returned |-> TRUE, tick |-> legs[k]]

\* C4: in part2 the first leg starts at tick 0, each later leg starts at the
\* tick the leg before returned with start and end swapped, and part2 returns
\* the tick the third leg returned.
C4_LegChaining ==
    prog = "part2" =>
        /\ \A k \in 1..Len(legs) : LegOutcome(k) \in outcomes
        /\ (pc \in {"search", "returned"} /\ Len(legs) < 3) =>
               <<call.start, call.end, call.start_time>> = LegCall(Len(legs) + 1)
        /\ pc = "done" => (Len(legs) = 3 /\ answer = legs[3])

\* C4's case: part2 has returned after three legs, the second from end to start.
C4_Witness ==
    /\ prog = "part2"
    /\ pc = "done"
    /\ answer = legs[3]
    /\ call.start = input.start
    /\ call.start_time = legs[2]
    /\ legs[2] > legs[1]

\* C5: a leg between the two endpoints returns a tick strictly greater than its
\* start_time, so the arrival ticks of part2 strictly increase.
C5_LegsIncrease ==
    /\ \A o \in outcomes :
          (o.returned /\ o.start # o.end) => o.tick > o.start_time
    /\ pc = "returned" => result > call.start_time
    /\ \A i, j \in 1..Len(legs) : i < j => legs[i] < legs[j]

\* C5's case: three legs of part2 have returned.
C5_Witness ==
    /\ prog = "part2"
    /\ Len(legs) = 3
    /\ Cardinality({o \in outcomes : o.returned}) = 3

\* C6: the legs of part2 share one cache, and a move into tick t is validated
\* against the blizzards' positions at absolute tick t, counted from the
\* initial layout and not from the leg's start.
C6_AbsoluteTicks ==
    prog = "part2" =>
        /\ pc = "search" => Len(states) > call.start_time
        /\ \A k \in 1..Len(legs) : Len(states) > legs[k]
        /\ \A n \in DOMAIN parents :
              n[2] > call.start_time =>
                  \/ n[1] \in {input.start, input.end}
                  \/ InInterior(n[1]) /\ n[1] \notin ObstaclesAt(n[2])

\* C6's case: a later leg of part2 has moved into the interior at a tick where
\* the slice counted from the leg's own start would have barred the cell.
C6_Witness ==
    /\ prog = "part2"
    /\ Len(legs) >= 1
    /\ \E n \in DOMAIN parents :
          /\ n[2] > call.start_time
          /\ InInterior(n[1])
          /\ n[1] \in ObstaclesAt(n[2] - call.start_time)

\* C7: the cache is append-only: its length never decreases and an entry, once
\* present, is never modified.
C7_AppendOnly ==
    [][/\ Len(states') >= Len(states)
       /\ \A i \in 1..Len(states) : states'[i] = states[i]]_vars

\* C7's case: a second call has begun on a cache an earlier call extended,
\* and has extended it further.
C7_Witness ==
    /\ ncalls = 2
    /\ pc = "search"
    /\ call.cached >= 3
    /\ Len(states) > call.cached

\* C8: states[i] is State::next applied i times to the initial layout: index
\* equals tick, no tick skipped, none pushed twice.
C8_IndexIsTick ==
    /\ states[1] = SliceAt(0)
    /\ \A i \in 1..(Len(states) - 1) : states[i + 1] = next(states[i])

\* C8's case: the cache holds several slices of a valley whose blizzards move.
C8_Witness ==
    /\ Len(states) >= 4
    /\ states[4] # states[3]
    /\ ncalls = 2

\* C9: a request beyond the cache frontier (a call begun with fewer than
\* start_time + 1 slices cached) has every missing slice computed and the
\* request for tick start_time + 1 answered.
C9_BeyondFrontierAnswered ==
    call.cached < call.start_time + 1 =>
        /\ pc # "oob"
        /\ (pc = "returned" \/ Cardinality(DOMAIN parents) > 1) =>
               Len(states) >= call.start_time + 2

\* C10: move_blizzard adds the heading's unit vector modulo the dimension of
\* that axis and keeps the heading.
ModStep(blizzard, dims) ==
    LET r == blizzard[1][1]
        c == blizzard[1][2]
    IN  CASE blizzard[2] = "Right" -> <<r, (c + 1) % dims[2]>>
          [] blizzard[2] = "Left"  -> <<r, (c - 1 + dims[2]) % dims[2]>>
          [] blizzard[2] = "Down"  -> <<(r + 1) % dims[1], c>>
          [] blizzard[2] = "Up"    -> <<(r - 1 + dims[1]) % dims[1], c>>

C10_StepIsModular ==
    \A i \in 1..(Len(states) - 1) :
        \A k \in DOMAIN states[i].blizzards :
            states[i + 1].blizzards[k] =
                <<ModStep(states[i].blizzards[k], states[i].dimensions),
                  states[i].blizzards[k][2]>>

\* C10's case: a blizzard on the boundary cell of its heading has come out on
\* the opposite boundary, on an axis longer than one cell.
C10_Witness ==
    \E i \in 1..(Len(states) - 1) :
        \E k \in DOMAIN states[i].blizzards :
            /\ states[i].blizzards[k][2] = "Up"
            /\ states[i].blizzards[k][1][1] = 0
            /\ states[i].dimensions[1] >= 2
            /\ states[i + 1].blizzards[k][1] =
                   <<states[i].dimensions[1] - 1, states[i].blizzards[k][1][2]>>

\* C11: a blizzard stepped over and over is back on its first cell after
\* exactly as many ticks as its axis is long (the columns for Left and Right,
\* the rows for Up and Down), and on no tick before that.
PeriodOf(blizzard, dimensions) ==
    IF blizzard[2] \in {"Left", "Right"} THEN dimensions[2] ELSE dimensions[1]

C11_PeriodIsAxisLength ==
    \A i \in 1..Len(states) : \A k \in DOMAIN states[i].blizzards :
        LET dim == PeriodOf(states[i].blizzards[k], input.dimensions)
        IN  /\ i + dim <= Len(states) =>
                   states[i + dim].blizzards[k] = states[i].blizzards[k]
            /\ \A j \in 1..(dim - 1) :
                   i + j <= Len(states) =>
                       states[i + j].blizzards[k][1] # states[i].blizzards[k][1]

\* A blizzard on an axis three cells long has gone once round.
C11_Witness ==
    /\ C11_PeriodIsAxisLength
    /\ \E i \in 1..Len(states) : \E k \in DOMAIN states[i].blizzards :
           /\ PeriodOf(states[i].blizzards[k], input.dimensions) = 3
           /\ i + 3 <= Len(states)
           /\ states[i + 3].blizzards[k] = states[i].blizzards[k]
           /\ states[i + 1].blizzards[k] # states[i].blizzards[k]

\* C12: State::next keeps the blizzard population: as many blizzards, in the
\* same order, each with the heading it had; blizzards that share a cell stay
\* separate entries, only the occupied set holds their cell once.
C12_PopulationKept ==
    \A i \in 1..Len(states) :
        /\ Len(states[i].blizzards) = Len(input.blizzards)
        /\ \A k \in DOMAIN states[i].blizzards :
               states[i].blizzards[k][2] = input.blizzards[k][2]
        /\ states[i].obstacles = {b[1] : b \in Range(states[i].blizzards)}

\* Two blizzards met on one cell and both were stepped on from there.
C12_Witness ==
    /\ C12_PopulationKept
    /\ \E i \in 1..(Len(states) - 1) :
           /\ Len(states[i].blizzards) = 2
           /\ Cardinality(states[i].obstacles) = 1
           /\ Len(states[i + 1].blizzards) = 2

\* C13: the blizzards never leave the interior [0, H) x [0, W), so the start
\* (row -1) and the end (row H) are in no slice's occupied set.
C13_BlizzardsStayInside ==
    \A i \in 1..Len(states) :
        /\ \A b \in Range(states[i].blizzards) :
               /\ 0 <= b[1][1] /\ b[1][1] < input.dimensions[1]
               /\ 0 <= b[1][2] /\ b[1][2] < input.dimensions[2]
        /\ input.start \notin states[i].obstacles
        /\ input.end \notin states[i].obstacles
        /\ input.start[1] = -1
        /\ input.end[1] = input.dimensions[1]

\* A blizzard heading Down wrapped in the column of the end, one row above it.
C13_Witness ==
    /\ C13_BlizzardsStayInside
    /\ \E i \in 1..(Len(states) - 1) : \E k \in DOMAIN states[i].blizzards :
           LET from == states[i].blizzards[k][1]
               to == states[i + 1].blizzards[k][1]
           IN  /\ states[i].blizzards[k][2] = "Down"
               /\ from[1] = input.dimensions[1] - 1
               /\ from[2] = input.end[2]
               /\ to[1] = 0

\* Whether astar has expanded a search state: it holds a cost for it and has
\* taken it off its heap.
IsExpanded(n) == n \in DOMAIN parents /\ \A e \in to_see : e.node # n

Expanded == {n \in DOMAIN parents : IsExpanded(n)}

\* The points the neighbor rule allows at tick t next to p, the blizzards
\* placed in closed form.
Candidates(p) ==
    {<<p[1], p[2]>>, <<p[1] - 1, p[2]>>, <<p[1] + 1, p[2]>>,
     <<p[1], p[2] - 1>>, <<p[1], p[2] + 1>>}

IsAllowedAt(q, t) ==
    \/ q = input.start
    \/ q = input.end
    \/ InInterior(q) /\ q \notin ObstaclesAt(t)

AllowedAt(p, t) == {q \in Candidates(p) : IsAllowedAt(q, t)}

\* C14: when astar expands a search state (p, t), its successors are exactly
\* the points among p and its four orthogonal neighbours that are the start,
\* the end, or an interior cell free of blizzards at tick t + 1: each of them
\* is a search state of tick t + 1 afterwards, and the search states the step
\* adds are all among them.
C14_SuccessorsAreTheAllowed ==
    [][\A e \in to_see \ to_see' :
          (pc = "search" /\ pc' = "search" /\ e.cost <= parents[e.node]) =>
              LET allowed == {<<q, e.node[2] + 1>> :
                                 q \in AllowedAt(e.node[1], e.node[2] + 1)}
              IN  /\ allowed \subseteq DOMAIN parents'
                  /\ (DOMAIN parents' \ DOMAIN parents) \subseteq allowed]_vars

\* An interior cell was expanded with a blizzard on one of its candidates at
\* the next tick, and its allowed candidates became search states.
C14_Witness ==
    \E n \in Expanded :
           /\ InInterior(n[1])
           /\ Candidates(n[1]) \cap ObstaclesAt(n[2] + 1) # {}
           /\ AllowedAt(n[1], n[2] + 1) # {}

\* C15: along every path the search explores, the position at tick t + 1 is
\* the position at tick t or orthogonally next to it, lies in the interior or
\* on the start or the end, and is on no blizzard of the cached slice of tick
\* t + 1.
C15_MovesAreLegal ==
    \A n \in DOMAIN parents :
        n[2] > call.start_time =>
            /\ \E m \in DOMAIN parents :
                   /\ m[2] + 1 = n[2]
                   /\ Abs(m[1][1] - n[1][1]) + Abs(m[1][2] - n[1][2]) <= 1
            /\ n[1] \in {input.start, input.end} \/ InInterior(n[1])
            /\ n[2] + 1 <= Len(states)
            /\ n[1] \notin states[n[2] + 1].obstacles

\* The search stands on a cell that a blizzard held one tick before.
C15_Witness ==
    /\ C15_MovesAreLegal
    /\ \E n \in DOMAIN parents :
           /\ n[2] > call.start_time
           /\ InInterior(n[1])
           /\ n[1] \in states[n[2]].obstacles

\* C16: the cache entry of tick 0 is the parsed input, unchanged, in part1 and
\* part2; the first move out of the start at tick 0 is checked against the
\* input stepped exactly once.
C16_TickZeroIsInput ==
    prog # "none" =>
        /\ states[1] = input
        /\ Len(states) >= 2 => states[2] = next(input)
        /\ \A n \in DOMAIN parents :
               n[2] = 1 => n[1] \in neighbors(next(input), input.start)

\* part2 moved onto the cell under the start at tick 1, a cell a blizzard
\* held at tick 0.
C16_Witness ==
    /\ C16_TickZeroIsInput
    /\ prog = "part2"
    /\ <<input.start[1] + 1, input.start[2]>> \in input.obstacles
    /\ <<<<input.start[1] + 1, input.start[2]>>, 1>> \in DOMAIN parents

\* Whether the set of points the traveler can stand on, tick after tick,
\* becomes empty before `end` is among them (and before tick `limit`).
RECURSIVE Exhausts(_, _, _, _, _)
Exhausts(frontier, slice, t, end, limit) ==
    IF frontier = {} THEN TRUE
    ELSE IF end \in frontier \/ t >= limit THEN FALSE
    ELSE LET after == next(slice)
         IN  Exhausts(UNION {neighbors(after, p) : p \in frontier},
                      after, t + 1, end, limit)

\* C17: arrival_time ends with "no path found" only when the search space is
\* exhausted: from (start, start_time) some tick is reached at which the
\* traveler can stand nowhere, the end not having been reached before.
C17_NoPathOnlyWhenExhausted ==
    pc = "nopath" =>
        Exhausts({call.start}, SliceAt(call.start_time), call.start_time,
                 call.end, TickCeiling)

\* A call ended with "no path found" after the traveler had somewhere to
\* stand for at least one more tick.
C17_Witness ==
    /\ C17_NoPathOnlyWhenExhausted
    /\ pc = "nopath"
    /\ neighbors(next(SliceAt(call.start_time)), call.start) # {}

\* C18: the generator fails on every text whose interior holds a character
\* other than '.', '>', 'v', '<', '^', and every blizzard of a valley it
\* returns has one of the four headings and a position in [0, H) x [0, W).
C18_InvalidInputRejected ==
    pc = "parsed" =>
        /\ \A r \in 2..(Len(text) - 1) : \A c \in 2..(Len(text[r]) - 1) :
               text[r][c] \in MapChars
        /\ \A b \in Range(input.blizzards) :
               /\ b[2] \in Direction
               /\ 0 <= b[1][1] /\ b[1][1] < input.dimensions[1]
               /\ 0 <= b[1][2] /\ b[1][2] < input.dimensions[2]

\* What does hold: a returned valley's blizzards are the map characters of
\* the scanned lines, each inside the interior.
GeneratedBlizzardsInside ==
    pc = "parsed" =>
        \A b \in Range(input.blizzards) :
            /\ b[2] \in Direction
            /\ 0 <= b[1][1] /\ b[1][1] < input.dimensions[1]
            /\ 0 <= b[1][2] /\ b[1][2] < input.dimensions[2]

\* C19: on valleys of realistic size (sides up to RealisticSide, ticks up to
\* RealisticTick) no integer computation of the search leaves its type: the
\* i32 coordinates of neighbors and move_blizzard stay in the i32 range, the
\* Manhattan heuristic, the estimated cost and the returned
\* `start_time as u32 + distance` stay in the u32 range, and the cast of
\* start_time truncates nothing.
C19_NoOverflow ==
    sizes.computed =>
        /\ \A v \in sizes.i32s : InI32(v)
        /\ \A v \in sizes.u32s : InU32(v)
        /\ ~sizes.truncated

\* The far corner of the largest valley measured against the start, at the
\* largest tick.
C19_Witness ==
    /\ C19_NoOverflow
    /\ sizes.computed
    /\ input.dimensions = <<RealisticSide, RealisticSide>>
    /\ sizes.point = <<RealisticSide - 1, RealisticSide - 1>>
    /\ sizes.start_time = RealisticTick
    /\ 2 * RealisticTick \in sizes.u32s
    /\ 2 * RealisticSide - 1 \in sizes.u32s

\* C20: the sum of two BalancedQuinary numbers, of equal or different
\* lengths, stands for the sum of the integers its operands stand for; so
\* part1 of day25 returns a balanced-quinary string of the sum of all lines.
C20_SumOfValues ==
    quinary.started =>
        /\ quinary.mode = "add" =>
               Value(quinary.sum) = Value(quinary.lhs) + Value(quinary.rhs)
        /\ quinary.mode = "part1" => Value(quinary.total) = quinary.value
        /\ quinary.mode = "done" =>
               /\ from_str_is_ok(quinary.returned)
               /\ StringValue(quinary.returned) = quinary.value

\* part1 returned a string longer than any of its lines (a carry ran past the
\* longest of them); and the example of the tests sums to "2=-1=0".
C20_Witness ==
    /\ C20_SumOfValues
    /\ quinary.started /\ quinary.mode = "done"
    /\ quinary.lines >= 2
    /\ Len(quinary.returned) > quinary.longest
    /\ quinary.longest = MaxQuints
    /\ day25_part1(Example25) = <<"2", "=", "-", "1", "=", "0">>

\* The ticks a traveler standing on p at tick t (slice `slice`) still needs to
\* reach `end`; -1 when it has not got there by the tick ceiling.
TicksToGo(p, t, slice, end) ==
    LET arrival == BfsFrom({p}, slice, t, end, TickCeiling)
    IN  IF arrival = -1 THEN -1 ELSE arrival - t

\* C21: the heuristic is admissible and consistent on the time-expanded
\* graph: for every search state (p, t) the Manhattan distance from p to
\* `end` is at most the number of ticks a traveler needs from (p, t) to
\* `end`, it is 0 on `end`, and it drops by at most 1 along every edge.
C21_HeuristicAdmissible ==
    \A n \in DOMAIN parents :
        LET slice == states[n[2] + 1]
            togo == TicksToGo(n[1], n[2], slice, call.end)
        IN  /\ togo # -1 => heuristic(call.end, n[1]) <= togo
            /\ heuristic(call.end, call.end) = 0
            /\ \A q \in neighbors(next(slice), n[1]) :
                   heuristic(call.end, n[1]) <= 1 + heuristic(call.end, q)

\* A search state in the interior from which the blizzards force a detour:
\* the traveler needs more ticks than the Manhattan distance.
C21_Witness ==
    /\ C21_HeuristicAdmissible
    /\ \E n \in DOMAIN parents :
           /\ InInterior(n[1])
           /\ TicksToGo(n[1], n[2], states[n[2] + 1], call.end)
                  > heuristic(call.end, n[1])

\* C22: every successor made for a search state (p, t) has tick t + 1 and
\* costs one more than (p, t), waiting included; so the value arrival_time
\* returns, start_time plus the cost of the goal state, is the tick of the
\* goal state reached.
C22_UnitEdges ==
    [][pc = "search" =>
          /\ \A n \in DOMAIN parents' \ DOMAIN parents :
                 \E e \in to_see \ to_see' :
                     /\ n[2] = e.node[2] + 1
                     /\ parents'[n] = e.cost + 1
                     /\ parents'[n] = n[2] - call.start_time
          /\ pc' = "returned" =>
                 \E e \in Best(to_see) :
                     /\ e.node[1] = call.end
                     /\ result' = e.node[2]
                     /\ result' = call.start_time + e.cost]_vars

\* A call begun after tick 0 returned a tick that includes ticks spent
\* waiting.
C22_Witness ==
    /\ pc = "returned"
    /\ call.start_time >= 1
    /\ result > call.start_time + heuristic(call.end, call.start)
    /\ \E o \in outcomes : o.returned /\ o.tick = result

\* C23: State::next changes the blizzard list and the occupied set only: the
\* new state has the dimensions, the start and the end of the state it was
\* made from, and that state is as it was.
C23_NextFrame ==
    [][Len(states') > Len(states) =>
          LET source == states[Len(states)]
              made == states'[Len(states')]
          IN  /\ made.dimensions = source.dimensions
              /\ made.start = source.start
              /\ made.end = source.end
              /\ states'[Len(states)] = source
              /\ input' = input]_vars

\* A step was made from a state whose blizzards it moved.
C23_Witness ==
    /\ Len(states) >= 3
    /\ states[3].blizzards # states[2].blizzards
    /\ states[3].obstacles # states[2].obstacles
    /\ states[3].start = input.start /\ states[3].end = input.end

\* C25: in every State the generator or State::next makes, the occupied set
\* is the set of the positions of the blizzards: no occupied cell without a
\* blizzard, no blizzard off the set.
PositionsOf(state) == {state.blizzards[k][1] : k \in DOMAIN state.blizzards}

C25_ObstaclesAreBlizzards ==
    /\ input.obstacles = PositionsOf(input)
    /\ \A i \in 1..Len(states) : states[i].obstacles = PositionsOf(states[i])

\* A stepped state whose two blizzards stand on two cells, not those of the
\* state the generator made.
C25_Witness ==
    /\ C25_ObstaclesAreBlizzards
    /\ Cardinality(input.obstacles) = 2
    /\ \E i \in 2..Len(states) :
           /\ Cardinality(states[i].obstacles) = 2
           /\ states[i].obstacles \cap input.obstacles = {}

\* C24: in every run of part1 and part2, the later legs of part2 included,
\* the cache holds at least time + 1 slices for every search state (p, time)
\* astar has yet to expand, so one push at most makes states[time + 1] exist:
\* the access is never out of bounds.
C24_CacheCoversExpansion ==
    /\ pc # "oob"
    /\ pc = "search" => \A e \in to_see : Len(states) >= e.node[2] + 1

\* The third leg of part2 is about to expand a state whose next slice is not
\* cached yet: exactly time + 1 slices are.
C24_Witness ==
    /\ C24_CacheCoversExpansion
    /\ prog = "part2" /\ Len(legs) = 2 /\ pc = "search"
    /\ \E e \in Best(to_see) :
           /\ e.node[2] > call.start_time
           /\ Len(states) = e.node[2] + 1

\* One traveler followed through the whole journey of part2: a point with
\* the number of goals behind it (0: none, 1: the end, 2: the end and then
\* the start, 3: the end again). Standing on the goal it is heading for puts
\* that goal behind it.
Promoted(q, goals) ==
    IF (goals = 0 /\ q = input.end)
       \/ (goals = 1 /\ q = input.start)
       \/ (goals = 2 /\ q = input.end)
    THEN <<q, goals + 1>>
    ELSE <<q, goals>>

\* The smallest tick at which some legal trajectory from the start at tick 0
\* has the three goals behind it; -1 when none has by tick `limit`.
RECURSIVE JourneyFrom(_, _, _, _)
JourneyFrom(frontier, slice, t, limit) ==
    IF \E f \in frontier : f[2] = 3 THEN t
    ELSE IF t >= limit THEN -1
    ELSE LET after == next(slice)
         IN  JourneyFrom(UNION {{Promoted(q, f[2]) : q \in neighbors(after, f[1])} :
                                   f \in frontier},
                         after, t + 1, limit)

\* C26: chaining the per-leg minima is optimal over the whole journey: the
\* tick part2 returns is the smallest tick at which any single legal
\* trajectory from the start at tick 0 has visited the end, then the start,
\* then the end again.
C26_ChainIsGloballyOptimal ==
    (prog = "part2" /\ pc = "done") =>
        answer = JourneyFrom({<<input.start, 0>>}, input, 0, MaxJourneyTick)

\* part2 returned on a valley where every leg took longer than the Manhattan
\* distance between the endpoints.
C26_Witness ==
    /\ C26_ChainIsGloballyOptimal
    /\ prog = "part2" /\ pc = "done"
    /\ Len(legs) = 3
    /\ legs[1] > heuristic(input.end, input.start)
    /\ legs[2] - legs[1] > heuristic(input.end, input.start)
    /\ legs[3] - legs[2] > heuristic(input.end, input.start)

\* C27: whenever `end` is reachable from (start, start_time), arrival_time
\* returns, having computed no slice beyond tick t_end + 1: a call does not
\* end in a panic while a breadth-first search by tick reaches `end`.
C27_ReachableReturns ==
    pc \in {"oob", "nopath"} =>
        BfsArrival(call.start, call.end, call.start_time) = -1

\* What does hold: a call that returns tick t_end leaves the cache no longer
\* than it found it or than t_end + 1 slices (ticks 0..t_end).
ReturnedWithinSlices ==
    [][(pc = "search" /\ pc' = "returned") =>
          \/ Len(states') <= call.cached
          \/ Len(states') <= result' + 1]_vars

\* Whether an endpoint can never be stepped onto: the one interior cell next
\* to it holds a blizzard at every tick (the blizzards come round after
\* rows x columns ticks at the latest).
SealedOff(endpoint) ==
    LET door == IF endpoint = input.start
                THEN <<0, input.start[2]>>
                ELSE <<input.dimensions[1] - 1, input.end[2]>>
    IN  \A t \in 0..(input.dimensions[1] * input.dimensions[2]) :
            door \in ObstaclesAt(t)

\* C28: a search launched from an endpoint towards an end that cannot be
\* reached never fails with "no path found" (the endpoint it stands on always
\* passes the neighbor filter, so waiting is always a successor); it goes on
\* searching and extending the cache, tick after tick.
C28_SealedEndSearchedForever ==
    (/\ pc # "idle"
     /\ call.start \in {input.start, input.end}
     /\ call.end \in {input.start, input.end} \ {call.start}
     /\ SealedOff(call.end)) =>
        /\ pc = "search"
        /\ to_see # {}

\* What does hold: no search from an endpoint ends with "no path found".
EndpointNeverNoPath == pc # "nopath"

\* A search towards a sealed end has extended the cache up to the tick
\* ceiling and is still under way.
SealedSearchAtCeiling ==
    /\ pc = "search"
    /\ SealedOff(call.end)
    /\ Len(states) = TickCeiling + 1
    /\ \A e \in to_see : e.node[1] # call.end

\* C29: after every Rope::pull, from the rope with all knots on the origin
\* and for every rope length, each knot after the head is within Chebyshev
\* distance 1 of the knot before it, and no knot has moved more than one
\* cell on either axis in the pull.
C29_KnotsStayTouching ==
    (rope.started /\ ~rope.panicked) =>
        /\ \A k \in 2..Len(rope.knots) :
               /\ Abs(rope.knots[k].x - rope.knots[k - 1].x) <= 1
               /\ Abs(rope.knots[k].y - rope.knots[k - 1].y) <= 1
        /\ \A k \in 1..Len(rope.knots) :
               /\ Abs(rope.knots[k].x - rope.before[k].x) <= 1
               /\ Abs(rope.knots[k].y - rope.before[k].y) <= 1

\* A pull in which a knot found the knot before it two cells off on both
\* axes and followed it diagonally.
C29_Witness ==
    /\ C29_KnotsStayTouching
    /\ rope.started /\ rope.pulls >= 1
    /\ \E k \in 2..Len(rope.knots) :
           /\ Abs(rope.knots[k - 1].x - rope.before[k].x) = 2
           /\ Abs(rope.knots[k - 1].y - rope.before[k].y) = 2
           /\ rope.knots[k].x # rope.before[k].x
           /\ rope.knots[k].y # rope.before[k].y

\* C30: in the digit loop of the addition, for every two digits and every
\* incoming carry among MinusOne, Zero, One, adding the generated carry and
\* the propagated carry produces no carry of its own, and the total carry is
\* one of MinusOne, Zero, One.
C30_CarryStaysSmall ==
    (quinary.started /\ quinary.mode = "round") =>
        /\ quinary.round.discarded = "Zero"
        /\ quinary.round.total_carry \in Carries

\* The two digits made a carry and the incoming carry made the opposite one:
\* the two cancel.
C30_Witness ==
    /\ C30_CarryStaysSmall
    /\ quinary.started /\ quinary.mode = "round"
    /\ quinary.round.generated_carry = "One"
    /\ quinary.round.propagated_carry = "MinusOne"
    /\ quinary.round.total_carry = "Zero"
====
